---- MODULE Spec2Model ----
(***************************************************************************)
(* Underscore-underline plugin: the toggle resolver of                     *)
(* src/src/toggle-command.ts (getUnderlineState, applySingleLineToggle,    *)
(* getLineSlice, countUnderlinedLines, applyMultiLineToggle,               *)
(* toggleUnderlineCommand) over a line-addressable editor buffer.          *)
(*                                                                         *)
(* A line is a sequence of one-character strings; columns and line numbers *)
(* are 0-based as in the source, sequences are 1-based, so column c of a   *)
(* line is element c + 1.                                                  *)
(***************************************************************************)
EXTENDS Integers, Sequences, FiniteSets, TLC

VARIABLES
    lines,      \* the buffer: the editor's lines (currentLines)
    cursor,     \* the editor's selection: getCursor("from") / getCursor("to")
    query,      \* the latest call of a pure function and what it returned
    calls,      \* the handler invocations so far, each with the buffer before it,
                \* the buffer writes and the selection calls it issued
    view        \* the editor view a decoration pass reads: its viewport and
                \* the ranges of the syntax tree's code, math, link and url nodes

vars == <<lines, cursor, query, calls, view>>

----------------------------------------------------------------------------
(* Bounds *)

MaxClassifyLen == 6   \* longest line handed to getUnderlineState alone
MaxLen == 5           \* longest initial line of the single-line toggle
MaxOps == 2           \* handler invocations in one behaviour
MaxLines == 4         \* most lines in a buffer of the multi-line toggle
CmdLen == 2           \* longest initial line of a buffer of the command
CmdLines == 2         \* most lines in a buffer of the command
MaxWordLen == 5       \* longest line handed to detectWordRange alone
MaxScanLen == 7       \* longest text handed to the underscore pattern alone
MaxDocLen == 5        \* longest document of a decoration pass, newlines counted
MaxRegions == 2       \* most skipped syntax nodes of a decoration pass
MaxSourceLen == 5     \* longest source text of a rendered block, newlines counted
MaxTextLen == 2       \* longest textContent of an element of a rendered block

Alphabet == {"_", "a", " "}     \* a mark, a word character, a stop character
ToggleAlphabet == {"_", "a"}    \* the toggles only tell "_" from the rest
ScanAlphabet == {"_", "a", " ", "\n"}   \* what the pattern tells apart, and a blank
DocAlphabet == {"_", "a", "\n"}  \* a document: marks, other characters, line breaks
\* a source text: marks, other characters, blanks, backticks, line breaks
SourceAlphabet == {"_", "a", " ", "grave", "\n"}
TextAlphabet == {"a", " ", "_"}  \* the text of a rendered element

LinesOver(S, n) == UNION {[1..k -> S] : k \in 0..n}

----------------------------------------------------------------------------
(* JavaScript strings *)

\* line[i]: the character at column i, undefined outside the line
charAt(line, i) == IF i >= 0 /\ i < Len(line) THEN line[i + 1] ELSE "undefined"

Min(a, b) == IF a <= b THEN a ELSE b
Max(a, b) == IF a >= b THEN a ELSE b

\* line.slice(a, b) for a, b >= 0: both ends clamped to the line, empty if a >= b
slice(line, a, b) ==
    LET lo == Min(Max(a, 0), Len(line))
        hi == Min(Max(b, 0), Len(line))
    IN  IF lo >= hi THEN <<>> ELSE SubSeq(line, lo + 1, hi)

\* line.slice(a)
sliceFrom(line, a) == slice(line, a, Len(line))

Pos(l, c) == [line |-> l, ch |-> c]

----------------------------------------------------------------------------
(* getUnderlineState *)

\* getUnderlineState without the left-side guard of the marks-excluded case
getUnderlineStateNoLeftGuard(line, selFrom, selTo) ==
    IF /\ selTo - selFrom >= 2
       /\ charAt(line, selFrom) = "_"
       /\ charAt(line, selTo - 1) = "_"
       /\ charAt(line, selFrom + 1) # "_"
    THEN [isUnderlined |-> TRUE,
          markFrom |-> selFrom, markTo |-> selTo,
          contentFrom |-> selFrom + 1, contentTo |-> selTo - 1]
    ELSE IF /\ selFrom > 0
            /\ selTo < Len(line)
            /\ charAt(line, selFrom - 1) = "_"
            /\ charAt(line, selTo) = "_"
            /\ charAt(line, selTo + 1) # "_"
    THEN [isUnderlined |-> TRUE,
          markFrom |-> selFrom - 1, markTo |-> selTo + 1,
          contentFrom |-> selFrom, contentTo |-> selTo]
    ELSE [isUnderlined |-> FALSE,
          markFrom |-> selFrom, markTo |-> selTo,
          contentFrom |-> selFrom, contentTo |-> selTo]

getUnderlineState(line, selFrom, selTo) ==
    IF /\ selTo - selFrom >= 2
       /\ charAt(line, selFrom) = "_"
       /\ charAt(line, selTo - 1) = "_"
       /\ charAt(line, selFrom + 1) # "_"
    THEN [isUnderlined |-> TRUE,
          markFrom |-> selFrom, markTo |-> selTo,
          contentFrom |-> selFrom + 1, contentTo |-> selTo - 1]
    ELSE IF /\ selFrom > 0
            /\ selTo < Len(line)
            /\ charAt(line, selFrom - 1) = "_"
            /\ charAt(line, selTo) = "_"
            /\ charAt(line, selFrom - 2) # "_"
            /\ charAt(line, selTo + 1) # "_"
    THEN [isUnderlined |-> TRUE,
          markFrom |-> selFrom - 1, markTo |-> selTo + 1,
          contentFrom |-> selFrom, contentTo |-> selTo]
    ELSE [isUnderlined |-> FALSE,
          markFrom |-> selFrom, markTo |-> selTo,
          contentFrom |-> selFrom, contentTo |-> selTo]

NoQuery == [asked |-> FALSE]
NoView == [viewport |-> [from |-> 0, to |-> 0], skippedRanges |-> <<>>]
NoCursor == [known |-> FALSE, from |-> Pos(0, 0), to |-> Pos(0, 0)]

\* A caller asks getUnderlineState about the range [from, to) of the line
Classify(from, to) ==
    /\ query' = [asked |-> TRUE, line |-> lines[1], from |-> from, to |-> to,
                 state |-> getUnderlineState(lines[1], from, to)]
    /\ UNCHANGED <<lines, cursor, calls, view>>

InitClassify ==
    /\ lines \in {<<l>> : l \in LinesOver(ToggleAlphabet, MaxClassifyLen)}
    /\ cursor = NoCursor
    /\ query = NoQuery
    /\ view = NoView
    /\ calls = <<>>

NextClassify ==
    \E from \in 0..Len(lines[1]) : \E to \in from..Len(lines[1]) : Classify(from, to)

SpecClassify == InitClassify /\ [][NextClassify]_vars

----------------------------------------------------------------------------
(* The editor: the buffer, the selection, and the calls a handler issued *)

NoVote == [voted |-> FALSE]

Editor(ls, cur) ==
    [lines |-> ls, cursor |-> cur, writes |-> <<>>, selCalls |-> <<>>, vote |-> NoVote]

Collapsed(p) == [known |-> TRUE, from |-> p, to |-> p]
Selection(a, b) == [known |-> TRUE, from |-> a, to |-> b]

getLine(editor, n) == editor.lines[n + 1]

\* editor.replaceRange(text, from, to): a range within one line is replaced
\* by text; where the host leaves the selection is not the plugin's choice
replaceRange(editor, text, from, to) ==
    LET line == getLine(editor, from.line)
        call == [text |-> text, from |-> from, to |-> to]
    IN  IF from.line = to.line
        THEN [editor EXCEPT
                !.lines[from.line + 1] =
                    slice(line, 0, from.ch) \o text \o sliceFrom(line, to.ch),
                !.writes = Append(@, call),
                !.cursor = NoCursor]
        ELSE [editor EXCEPT !.writes = Append(@, call), !.cursor = NoCursor]

\* editor.setSelection(anchor, head)
setSelection(editor, anchor, head) ==
    [editor EXCEPT !.cursor = Selection(anchor, head),
                   !.selCalls = Append(@, [from |-> anchor, to |-> head])]

----------------------------------------------------------------------------
(* applySingleLineToggle *)

\* the early return taken on every range
isEmptyRangeNever(selFrom, selTo) == FALSE

\* if (selFrom === selTo) return
isEmptyRange(selFrom, selTo) == selFrom = selTo

\* the closing mark left in place: the replaced range stops one column early
removeMarksKeepClosing(editor, lineNum, state, content) ==
    setSelection(
        replaceRange(editor, content,
                     Pos(lineNum, state.markFrom), Pos(lineNum, state.markTo - 1)),
        Pos(lineNum, state.markFrom),
        Pos(lineNum, state.markFrom + Len(content)))

\* the isUnderlined branch: one write strips both marks, the selection covers
\* the content
removeMarks(editor, lineNum, state, content) ==
    setSelection(
        replaceRange(editor, content,
                     Pos(lineNum, state.markFrom), Pos(lineNum, state.markTo)),
        Pos(lineNum, state.markFrom),
        Pos(lineNum, state.markFrom + Len(content)))

\* the selection left over the wrapped content instead of collapsed
addMarksSelectContent(editor, lineNum, selFrom, selTo, content) ==
    setSelection(
        replaceRange(editor, <<"_">> \o content \o <<"_">>,
                     Pos(lineNum, selFrom), Pos(lineNum, selTo)),
        Pos(lineNum, selFrom + 1),
        Pos(lineNum, selFrom + 1 + Len(content)))

\* the else branch: one write wraps the range, the cursor collapses after the
\* closing mark
addMarks(editor, lineNum, selFrom, selTo, content) ==
    LET afterMark == selFrom + Len(content) + 2
    IN  setSelection(
            replaceRange(editor, <<"_">> \o content \o <<"_">>,
                         Pos(lineNum, selFrom), Pos(lineNum, selTo)),
            Pos(lineNum, afterMark),
            Pos(lineNum, afterMark))

applySingleLineToggle(editor, lineNum, selFrom, selTo) ==
    IF isEmptyRange(selFrom, selTo) THEN editor
    ELSE LET line == getLine(editor, lineNum)
             state == getUnderlineState(line, selFrom, selTo)
             content == slice(line, state.contentFrom, state.contentTo)
         IN  IF state.isUnderlined
             THEN removeMarks(editor, lineNum, state, content)
             ELSE addMarks(editor, lineNum, selFrom, selTo, content)

\* what one handler invocation did: its arguments, the editor before and after
Call(op, args, editor) ==
    [op |-> op, args |-> args,
     before |-> lines, cursorBefore |-> cursor,
     after |-> editor.lines, cursorAfter |-> editor.cursor,
     writes |-> editor.writes, selCalls |-> editor.selCalls, vote |-> editor.vote]

\* applySingleLineToggle(editor, lineNum, selFrom, selTo) runs to completion
ApplySingle(lineNum, selFrom, selTo) ==
    /\ Len(calls) < MaxOps
    /\ LET editor == applySingleLineToggle(Editor(lines, cursor), lineNum, selFrom, selTo)
       IN  /\ lines' = editor.lines
           /\ cursor' = editor.cursor
           /\ calls' = Append(calls,
                  Call("applySingleLineToggle",
                       [lineNum |-> lineNum, selFrom |-> selFrom, selTo |-> selTo],
                       editor))
    /\ UNCHANGED <<query, view>>

InitSingle ==
    /\ lines \in {<<l>> : l \in LinesOver(ToggleAlphabet, MaxLen)}
    /\ cursor = Collapsed(Pos(0, 0))
    /\ query = NoQuery
    /\ view = NoView
    /\ calls = <<>>

NextSingle ==
    \E selFrom \in 0..Len(lines[1]) : \E selTo \in selFrom..Len(lines[1]) :
        ApplySingle(0, selFrom, selTo)

SpecSingle == InitSingle /\ [][NextSingle]_vars

----------------------------------------------------------------------------
(* getLineSlice, countUnderlinedLines, applyMultiLineToggle *)

\* the first line's slice taken from column 0
getLineSliceWholeFirst(line, lineNum, selFrom, selTo) ==
    IF lineNum = selFrom.line /\ lineNum = selTo.line
    THEN [from |-> selFrom.ch, to |-> Min(selTo.ch, Len(line))]
    ELSE IF lineNum = selFrom.line THEN [from |-> 0, to |-> Len(line)]
    ELSE IF lineNum = selTo.line THEN [from |-> 0, to |-> Min(selTo.ch, Len(line))]
    ELSE [from |-> 0, to |-> Len(line)]

getLineSlice(line, lineNum, selFrom, selTo) ==
    IF lineNum = selFrom.line /\ lineNum = selTo.line
    THEN [from |-> selFrom.ch, to |-> Min(selTo.ch, Len(line))]
    ELSE IF lineNum = selFrom.line THEN [from |-> selFrom.ch, to |-> Len(line)]
    ELSE IF lineNum = selTo.line THEN [from |-> 0, to |-> Min(selTo.ch, Len(line))]
    ELSE [from |-> 0, to |-> Len(line)]

\* the loop of countUnderlinedLines from line i on, with the counts so far
RECURSIVE countFrom(_, _, _, _, _)
countFrom(editor, i, selFrom, selTo, acc) ==
    IF i > selTo.line THEN acc
    ELSE LET line == getLine(editor, i)
             sl == getLineSlice(line, i, selFrom, selTo)
         IN  IF sl.from >= sl.to
             THEN countFrom(editor, i + 1, selFrom, selTo, acc)
             ELSE countFrom(editor, i + 1, selFrom, selTo,
                    [underlined |-> acc.underlined +
                        (IF getUnderlineState(line, sl.from, sl.to).isUnderlined
                         THEN 1 ELSE 0),
                     total |-> acc.total + 1])

countUnderlinedLines(editor, selFrom, selTo) ==
    countFrom(editor, selFrom.line, selFrom, selTo, [underlined |-> 0, total |-> 0])

\* a tie counted as a majority
shouldRemoveOnTie(underlined, total) == 2 * underlined >= total

\* underlined > total / 2, the division not rounded
shouldRemove(underlined, total) == 2 * underlined > total

\* every non-empty slice wrapped when inserting, whatever its state
toggleLineWrapAlways(editor, i, selFrom, selTo, remove) ==
    LET line == getLine(editor, i)
        sl == getLineSlice(line, i, selFrom, selTo)
        state == getUnderlineState(line, sl.from, sl.to)
        content == slice(line, state.contentFrom, state.contentTo)
    IN  IF sl.from >= sl.to THEN editor
        ELSE IF remove /\ state.isUnderlined
        THEN replaceRange(editor, content, Pos(i, state.markFrom), Pos(i, state.markTo))
        ELSE IF ~remove
        THEN replaceRange(editor, <<"_">> \o content \o <<"_">>,
                          Pos(i, sl.from), Pos(i, sl.to))
        ELSE editor

\* the body of the edit loop for line i
toggleLine(editor, i, selFrom, selTo, remove) ==
    LET line == getLine(editor, i)
        sl == getLineSlice(line, i, selFrom, selTo)
        state == getUnderlineState(line, sl.from, sl.to)
        content == slice(line, state.contentFrom, state.contentTo)
    IN  IF sl.from >= sl.to THEN editor
        ELSE IF remove /\ state.isUnderlined
        THEN replaceRange(editor, content, Pos(i, state.markFrom), Pos(i, state.markTo))
        ELSE IF ~remove /\ ~state.isUnderlined
        THEN replaceRange(editor, <<"_">> \o content \o <<"_">>,
                          Pos(i, sl.from), Pos(i, sl.to))
        ELSE editor

\* the edit loop from line i down to selFrom.line
RECURSIVE toggleDownFrom(_, _, _, _, _)
toggleDownFrom(editor, i, selFrom, selTo, remove) ==
    IF i < selFrom.line THEN editor
    ELSE toggleDownFrom(toggleLine(editor, i, selFrom, selTo, remove),
                        i - 1, selFrom, selTo, remove)

\* the first selected line edited first, the others after it from the last up
applyMultiLineToggleFirstLineFirst(editor, selFrom, selTo) ==
    LET count == countUnderlinedLines(editor, selFrom, selTo)
        remove == shouldRemove(count.underlined, count.total)
        voted == [editor EXCEPT !.vote =
                     [voted |-> TRUE, underlined |-> count.underlined,
                      total |-> count.total, shouldRemove |-> remove]]
    IN  toggleDownFrom(toggleLine(voted, selFrom.line, selFrom, selTo, remove),
                       selTo.line, Pos(selFrom.line + 1, 0), selTo, remove)

applyMultiLineToggle(editor, selFrom, selTo) ==
    LET count == countUnderlinedLines(editor, selFrom, selTo)
        remove == shouldRemove(count.underlined, count.total)
        voted == [editor EXCEPT !.vote =
                     [voted |-> TRUE, underlined |-> count.underlined,
                      total |-> count.total, shouldRemove |-> remove]]
    IN  toggleDownFrom(voted, selTo.line, selFrom, selTo, remove)

\* the positions of a buffer, and its selections from <= to
Positions(ls) ==
    UNION {{Pos(l, c) : c \in 0..Len(ls[l + 1])} : l \in 0..(Len(ls) - 1)}

Before(p, q) == p.line < q.line \/ (p.line = q.line /\ p.ch <= q.ch)

BuffersOver(L, n) == UNION {[1..k -> L] : k \in 1..n}

\* applyMultiLineToggle(editor, selFrom, selTo) runs to completion, once on
\* a fresh editor
ApplyMulti(selFrom, selTo) ==
    /\ calls = <<>>
    /\ LET editor == applyMultiLineToggle(Editor(lines, cursor), selFrom, selTo)
       IN  /\ lines' = editor.lines
           /\ cursor' = editor.cursor
           /\ calls' = Append(calls,
                  Call("applyMultiLineToggle",
                       [selFrom |-> selFrom, selTo |-> selTo], editor))
    /\ UNCHANGED <<query, view>>

\* empty, plain, underlined, underlined from mid-line on, and strong lines
SampleLines ==
    { <<>>, <<"a">>, <<"_", "a", "_">>,
      <<"a", "_", "a", "_">>, <<"_", "_", "a", "_", "_">> }

InitMulti ==
    /\ lines \in BuffersOver(SampleLines, MaxLines)
    /\ cursor = Collapsed(Pos(0, 0))
    /\ query = NoQuery
    /\ view = NoView
    /\ calls = <<>>

NextMulti ==
    \E selFrom \in Positions(lines) : \E selTo \in Positions(lines) :
        Before(selFrom, selTo) /\ ApplyMulti(selFrom, selTo)

SpecMulti == InitMulti /\ [][NextMulti]_vars

----------------------------------------------------------------------------
(* detectWordRange *)

\* STOP_CHARS: whitespace (a blank stands for the class) and the markdown
\* syntax characters; the grave accent is spelled out
StopChars == {" ", "_", "*", "~", "grave", "[", "]", "(", ")", "|", "#"}

isStop(c) == c \in StopChars

RECURSIVE expandLeft(_, _)
expandLeft(line, left) ==
    IF left > 0 /\ ~isStop(charAt(line, left - 1))
    THEN expandLeft(line, left - 1)
    ELSE left

RECURSIVE expandRight(_, _)
expandRight(line, right) ==
    IF right < Len(line) /\ ~isStop(charAt(line, right))
    THEN expandRight(line, right + 1)
    ELSE right

\* the word taken from the cursor on, never leftwards
detectWordRangeNoLeft(line, ch) ==
    IF ch < Len(line) /\ isStop(charAt(line, ch))
    THEN [from |-> ch, to |-> ch]
    ELSE [from |-> ch, to |-> expandRight(line, ch)]

detectWordRange(line, ch) ==
    IF ch < Len(line) /\ isStop(charAt(line, ch))
    THEN [from |-> ch, to |-> ch]
    ELSE [from |-> expandLeft(line, ch), to |-> expandRight(line, ch)]

\* A caller asks detectWordRange for the word at column ch of the line
DetectWord(ch) ==
    /\ query' = [asked |-> TRUE, line |-> lines[1], ch |-> ch,
                 word |-> detectWordRange(lines[1], ch)]
    /\ UNCHANGED <<lines, cursor, calls, view>>

InitWord ==
    /\ lines \in {<<l>> : l \in LinesOver(Alphabet, MaxWordLen)}
    /\ cursor = NoCursor
    /\ query = NoQuery
    /\ view = NoView
    /\ calls = <<>>

NextWord == \E ch \in 0..Len(lines[1]) : DetectWord(ch)

SpecWord == InitWord /\ [][NextWord]_vars

----------------------------------------------------------------------------
(* toggleUnderlineCommand *)

\* the text put on a line of its own, between the two parts of the line
replaceSelectionOnNewLine(editor, text) ==
    LET from == editor.cursor.from
        to == editor.cursor.to
        line == getLine(editor, from.line)
    IN  [editor EXCEPT
            !.lines = SubSeq(@, 1, from.line)
                        \o <<slice(line, 0, from.ch), text, sliceFrom(line, to.ch)>>
                        \o SubSeq(@, from.line + 2, Len(@)),
            !.writes = Append(@, [text |-> text, from |-> from, to |-> to]),
            !.cursor = NoCursor]

\* editor.replaceSelection(text): the selection, on the line of its start,
\* is replaced by text
replaceSelection(editor, text) ==
    LET from == editor.cursor.from
        to == editor.cursor.to
        line == getLine(editor, from.line)
    IN  [editor EXCEPT
            !.lines[from.line + 1] =
                slice(line, 0, from.ch) \o text \o sliceFrom(line, to.ch),
            !.writes = Append(@, [text |-> text, from |-> from, to |-> to]),
            !.cursor = NoCursor]

\* editor.setCursor(pos)
setCursor(editor, pos) ==
    [editor EXCEPT !.cursor = Collapsed(pos),
                   !.selCalls = Append(@, [from |-> pos, to |-> pos])]

\* a selection spanning lines at equal columns taken for no selection
hasSelectionChOnly(from, to) == from.ch # to.ch

\* const hasSelection = from.line !== to.line || from.ch !== to.ch
hasSelection(from, to) == from.line # to.line \/ from.ch # to.ch

\* the pair not recognised at the start of the line
betweenEmptyMarksOffByOne(line, ch) ==
    /\ ch > 1
    /\ ch < Len(line)
    /\ charAt(line, ch - 1) = "_"
    /\ charAt(line, ch) = "_"

\* the cursor sits exactly between two adjacent underscores
betweenEmptyMarks(line, ch) ==
    /\ ch > 0
    /\ ch < Len(line)
    /\ charAt(line, ch - 1) = "_"
    /\ charAt(line, ch) = "_"

\* only the underscore left of the cursor deleted
deleteEmptyPairLeftOnly(editor, from) ==
    replaceRange(editor, <<>>, Pos(from.line, from.ch - 1), Pos(from.line, from.ch))

\* editor.replaceRange("", ch - 1, ch + 1)
deleteEmptyPair(editor, from) ==
    replaceRange(editor, <<>>, Pos(from.line, from.ch - 1), Pos(from.line, from.ch + 1))

\* the cursor left after the inserted pair
insertEmptyPairCursorAfter(editor, from) ==
    setCursor(replaceSelection(editor, <<"_", "_">>), Pos(from.line, from.ch + 2))

\* editor.replaceSelection("__"), then the cursor set between the two marks
insertEmptyPair(editor, from) ==
    setCursor(replaceSelection(editor, <<"_", "_">>), Pos(from.line, from.ch + 1))

\* nothing done when no word stands at the cursor
toggleUnderlineCommandWordOnly(editor) ==
    LET from == editor.cursor.from
        to == editor.cursor.to
        line == getLine(editor, from.line)
        word == detectWordRange(line, from.ch)
    IN  IF ~hasSelection(from, to)
        THEN IF word.from = word.to
             THEN editor
             ELSE applySingleLineToggle(editor, from.line, word.from, word.to)
        ELSE IF from.line = to.line
        THEN applySingleLineToggle(editor, from.line, from.ch, to.ch)
        ELSE applyMultiLineToggle(editor, from, to)

toggleUnderlineCommand(editor) ==
    LET from == editor.cursor.from
        to == editor.cursor.to
        line == getLine(editor, from.line)
        word == detectWordRange(line, from.ch)
    IN  IF ~hasSelection(from, to)
        THEN IF word.from = word.to
             THEN IF betweenEmptyMarks(line, from.ch)
                  THEN deleteEmptyPair(editor, from)
                  ELSE insertEmptyPair(editor, from)
             ELSE applySingleLineToggle(editor, from.line, word.from, word.to)
        ELSE IF from.line = to.line
        THEN applySingleLineToggle(editor, from.line, from.ch, to.ch)
        ELSE applyMultiLineToggle(editor, from, to)

\* the selections a buffer admits: both ends in the buffer, from <= to
Selections(ls) ==
    {Selection(p, q) : p \in Positions(ls), q \in Positions(ls)} \cap
    {sel \in [known : {TRUE}, from : Positions(ls), to : Positions(ls)] :
        Before(sel.from, sel.to)}

\* the user invokes the command on the current selection
ToggleCommand ==
    /\ Len(calls) < MaxOps
    /\ cursor.known
    /\ LET editor == toggleUnderlineCommand(Editor(lines, cursor))
       IN  /\ lines' = editor.lines
           /\ cursor' = editor.cursor
           /\ calls' = Append(calls, Call("toggleUnderlineCommand", cursor, editor))
    /\ UNCHANGED <<query, view>>

\* the user selects again what was selected when the command was last invoked
Reselect ==
    /\ calls # <<>>
    /\ Len(calls) < MaxOps
    /\ cursor # calls[Len(calls)].cursorBefore
    /\ calls[Len(calls)].cursorBefore \in Selections(lines)
    /\ cursor' = calls[Len(calls)].cursorBefore
    /\ UNCHANGED <<lines, query, calls, view>>

Init ==
    /\ lines \in BuffersOver(LinesOver(Alphabet, CmdLen), CmdLines)
    /\ cursor \in Selections(lines)
    /\ query = NoQuery
    /\ view = NoView
    /\ calls = <<>>

Next == ToggleCommand \/ Reselect

Spec == Init /\ [][Next]_vars

----------------------------------------------------------------------------
(* UNDERSCORE_RE = /_([^_\n]+?)_/g and the exec loop over it *)

\* [^_\n]: one character that is neither an underscore nor a newline
isContentChar(c) == c # "_" /\ c # "\n" /\ c # "undefined"

\* the lazy quantifier with at least one character consumed up to column j:
\* close on an underscore, else take one more content character, else fail
RECURSIVE closeFrom(_, _)
closeFrom(text, j) ==
    IF charAt(text, j) = "_" THEN j + 1
    ELSE IF isContentChar(charAt(text, j)) THEN closeFrom(text, j + 1)
    ELSE -1

\* the content allowed to be empty, as with *? for +?
matchAtEmptyContent(text, i) ==
    IF charAt(text, i) = "_" THEN closeFrom(text, i + 1) ELSE -1

\* the pattern tried at column i: the column past the match, or -1
matchAt(text, i) ==
    IF charAt(text, i) = "_" /\ isContentChar(charAt(text, i + 1))
    THEN closeFrom(text, i + 2)
    ELSE -1

NoMatch == [index |-> -1, end |-> -1]

\* UNDERSCORE_RE.exec(text) with the given lastIndex: the leftmost match
\* starting at or after lastIndex, or null
RECURSIVE exec(_, _)
exec(text, lastIndex) ==
    IF lastIndex > Len(text) THEN NoMatch
    ELSE IF matchAt(text, lastIndex) >= 0
    THEN [index |-> lastIndex, end |-> matchAt(text, lastIndex)]
    ELSE exec(text, lastIndex + 1)

\* the next search started on the closing mark of the match
lastIndexOnClosingMark(match) == match.end - 1

\* lastIndex after a match of the global pattern: the column past the match
lastIndexAfter(match) == match.end

\* while ((match = UNDERSCORE_RE.exec(text)) !== null), from lastIndex on
RECURSIVE execLoop(_, _, _)
execLoop(text, lastIndex, matches) ==
    LET match == exec(text, lastIndex)
    IN  IF match = NoMatch THEN matches
        ELSE execLoop(text, lastIndexAfter(match), Append(matches, match))

\* UNDERSCORE_RE.lastIndex = 0, then the loop
execAll(text) == execLoop(text, 0, <<>>)

\* from = line.from + match.index, to = from + match[0].length; the opening
\* mark is [from, from + 1), the content [from + 1, to - 1), the closing mark
\* [to - 1, to)
spanOf(lineFrom, match) ==
    LET from == lineFrom + match.index
        to == from + (match.end - match.index)
    IN  [markFrom |-> from, contentFrom |-> from + 1,
         contentTo |-> to - 1, markTo |-> to]

spansOf(lineFrom, matches) == [k \in 1..Len(matches) |-> spanOf(lineFrom, matches[k])]

\* the pattern is run over a text from its start
ScanText ==
    /\ ~query.asked
    /\ query' = [asked |-> TRUE, text |-> lines[1],
                 spans |-> spansOf(0, execAll(lines[1]))]
    /\ UNCHANGED <<lines, cursor, calls, view>>

InitScan ==
    /\ lines \in {<<l>> : l \in LinesOver(ScanAlphabet, MaxScanLen)}
    /\ cursor = NoCursor
    /\ query = NoQuery
    /\ view = NoView
    /\ calls = <<>>

NextScan == ScanText

SpecScan == InitScan /\ [][NextScan]_vars

----------------------------------------------------------------------------
(* buildDecorations *)

\* the lines of a document text: text.split("\n")
RECURSIVE splitLines(_, _, _)
splitLines(text, i, current) ==
    IF i > Len(text) THEN <<current>>
    ELSE IF text[i] = "\n" THEN <<current>> \o splitLines(text, i + 1, <<>>)
    ELSE splitLines(text, i + 1, Append(current, text[i]))

\* doc.line(k).from: every earlier line and its line break
RECURSIVE lineFrom(_, _)
lineFrom(doc, k) ==
    IF k = 1 THEN 0 ELSE lineFrom(doc, k - 1) + Len(doc[k - 1]) + 1

\* doc.line(k)
docLine(doc, k) ==
    [number |-> k, from |-> lineFrom(doc, k),
     to |-> lineFrom(doc, k) + Len(doc[k]), text |-> doc[k]]

\* doc.length
docLength(doc) == docLine(doc, Len(doc)).to

\* doc.lineAt(pos): the line whose [from, to] holds pos
lineAt(doc, pos) ==
    docLine(doc, CHOOSE k \in 1..Len(doc) :
                     docLine(doc, k).from <= pos /\ pos <= docLine(doc, k).to)

\* a skipped range filled with a character the pattern cannot take as content
blanksAsLineBreaks(n) == [i \in 1..n |-> "\n"]

\* " ".repeat(n)
blanks(n) == [i \in 1..n |-> " "]

\* the skipped part cut out of the line rather than blanked
blankRangeCutOut(text, start, end) ==
    slice(text, 0, start) \o sliceFrom(text, end)

\* text.slice(0, start) + " ".repeat(end - start) + text.slice(end)
blankRange(text, start, end) ==
    slice(text, 0, start) \o blanks(end - start) \o sliceFrom(text, end)

\* for (const r of skippedRanges), from the k-th range on: a range that meets
\* the line is clipped to it and blanked
RECURSIVE sanitizeFrom(_, _, _, _)
sanitizeFrom(sanitizedLineText, line, skippedRanges, k) ==
    IF k > Len(skippedRanges) THEN sanitizedLineText
    ELSE LET r == skippedRanges[k]
             start == Max(0, r.from - line.from)
             end == Min(Len(line.text), r.to - line.from)
         IN  IF r.to > line.from /\ r.from < line.to
             THEN sanitizeFrom(blankRange(sanitizedLineText, start, end),
                               line, skippedRanges, k + 1)
             ELSE sanitizeFrom(sanitizedLineText, line, skippedRanges, k + 1)

\* the line scanned as it stands, no range blanked
sanitizeNothing(line, skippedRanges) == line.text

\* let sanitizedLineText = lineText, then the loop over skippedRanges
sanitize(line, skippedRanges) == sanitizeFrom(line.text, line, skippedRanges, 1)

\* one pass of the loop body: the line at pos, its sanitized text and the
\* spans of the matches on it, in document offsets
scanLine(doc, skippedRanges, pos) ==
    LET line == lineAt(doc, pos)
        sanitizedLineText == sanitize(line, skippedRanges)
    IN  [line |-> line, sanitizedLineText |-> sanitizedLineText,
         spans |-> spansOf(line.from, execAll(sanitizedLineText))]

\* while (pos <= Math.min(vpTo, doc.length)): scan the line at pos, stop after
\* the last line, else go on at the start of the next line
RECURSIVE scanViewport(_, _, _, _, _)
scanViewport(doc, skippedRanges, vpTo, pos, scans) ==
    IF pos > Min(vpTo, docLength(doc)) THEN scans
    ELSE LET scan == scanLine(doc, skippedRanges, pos)
         IN  IF scan.line.to >= docLength(doc) THEN Append(scans, scan)
             ELSE scanViewport(doc, skippedRanges, vpTo, scan.line.to + 1,
                               Append(scans, scan))

\* builder.add(from, from + 1, mark); builder.add(from + 1, to - 1, content);
\* builder.add(to - 1, to, mark)
decorationsOf(span) ==
    <<[from |-> span.markFrom, to |-> span.contentFrom, class |-> "cm-underscore-mark"],
      [from |-> span.contentFrom, to |-> span.contentTo, class |-> "cm-underscore-underline"],
      [from |-> span.contentTo, to |-> span.markTo, class |-> "cm-underscore-mark"]>>

RECURSIVE flatten(_)
flatten(seqs) == IF seqs = <<>> THEN <<>> ELSE Head(seqs) \o flatten(Tail(seqs))

\* builder.finish(): the decorations of every span of every scanned line
finish(scans) ==
    flatten([i \in 1..Len(scans) |->
                flatten([k \in 1..Len(scans[i].spans) |->
                            decorationsOf(scans[i].spans[k])])])

buildDecorations(doc, v) ==
    LET scans == scanViewport(doc, v.skippedRanges, v.viewport.to,
                              v.viewport.from, <<>>)
    IN  [scans |-> scans, decorations |-> finish(scans)]

\* the view plugin builds the decorations of the view
BuildDecorations ==
    /\ ~query.asked
    /\ query' = [asked |-> TRUE] @@ buildDecorations(lines, view)
    /\ UNCHANGED <<lines, cursor, calls, view>>

\* the documents: every text over the alphabet, as its lines
Docs == {splitLines(text, 1, <<>>) : text \in LinesOver(DocAlphabet, MaxDocLen)}

\* a viewport covers whole lines
Viewports(doc) ==
    {[from |-> docLine(doc, i).from, to |-> docLine(doc, j).to] :
        i \in 1..Len(doc), j \in 1..Len(doc)} \cap
    {vp \in [from : 0..docLength(doc), to : 0..docLength(doc)] : vp.from <= vp.to}

\* syntax nodes are entered in document order, a parent before its children,
\* and two nodes are disjoint or nested
TreeOrder(ranges) ==
    \A i \in 1..Len(ranges), j \in 1..Len(ranges) :
        i < j =>
            /\ ranges[i].from <= ranges[j].from
            /\ \/ ranges[i].to <= ranges[j].from
               \/ ranges[j].to <= ranges[i].to

SkippedRanges(doc) ==
    LET Nodes == {r \in [from : 0..docLength(doc), to : 0..docLength(doc)] :
                      r.from < r.to}
    IN  {ranges \in UNION {[1..n -> Nodes] : n \in 0..MaxRegions} :
            TreeOrder(ranges)}

InitDecor ==
    /\ lines \in Docs
    /\ view \in {[viewport |-> vp, skippedRanges |-> ranges] :
                    vp \in Viewports(lines), ranges \in SkippedRanges(lines)}
    /\ cursor = NoCursor
    /\ query = NoQuery
    /\ calls = <<>>

NextDecor == BuildDecorations

SpecDecor == InitDecor /\ [][NextDecor]_vars

----------------------------------------------------------------------------
(* UnderlinePluginClass in the live editor: constructor and update *)

\* view.state.selection.main of a document: a cursor or a range, in offsets
SelectionsOf(doc) ==
    {sel \in [from : 0..docLength(doc), to : 0..docLength(doc)] : sel.from <= sel.to}

\* update(update) with update.selectionSet: the user moved the cursor or the
\* selection, and the decorations are built again from update.view
UpdateSelection ==
    /\ query.asked
    /\ \E sel \in SelectionsOf(lines) :
          /\ sel # view.selection
          /\ view' = [view EXCEPT !.selection = sel]
          /\ query' = [asked |-> TRUE] @@ buildDecorations(lines, view')
    /\ UNCHANGED <<lines, cursor, calls>>

\* a document without code, math or links, shown whole lines at a time, with
\* the selection anywhere; the constructor has not run yet
InitLive ==
    /\ lines \in Docs
    /\ view \in {[viewport |-> vp, skippedRanges |-> <<>>, selection |-> sel] :
                    vp \in Viewports(lines), sel \in SelectionsOf(lines)}
    /\ cursor = NoCursor
    /\ query = NoQuery
    /\ calls = <<>>

NextLive == BuildDecorations \/ UpdateSelection

SpecLive == InitLive /\ [][NextLive]_vars

----------------------------------------------------------------------------
(* reading mode: normalizeText, getUnderscoreTexts, transformElement *)

\* text.startsWith(word, i), columns from 0
startsWithAt(text, word, i) ==
    /\ i + Len(word) <= Len(text)
    /\ \A k \in 1..Len(word) : text[i + k] = word[k]

\* .replace(/\*\*|__|~~|`/g, ""): left to right, a pair of the double markers
\* or one backtick dropped at a time
RECURSIVE stripMarkers(_, _)
stripMarkers(text, i) ==
    IF i >= Len(text) THEN <<>>
    ELSE IF \/ startsWithAt(text, <<"*", "*">>, i)
            \/ startsWithAt(text, <<"_", "_">>, i)
            \/ startsWithAt(text, <<"~", "~">>, i)
    THEN stripMarkers(text, i + 2)
    ELSE IF text[i + 1] = "grave" THEN stripMarkers(text, i + 1)
    ELSE <<text[i + 1]>> \o stripMarkers(text, i + 1)

\* .replace(/\*/g, "")
stripStars(text) == SelectSeq(text, LAMBDA c : c # "*")

isWhitespace(c) == c \in {" ", "\n"}

\* .trim()
RECURSIVE trimStart(_)
trimStart(text) ==
    IF text # <<>> /\ isWhitespace(Head(text)) THEN trimStart(Tail(text)) ELSE text

RECURSIVE trimEnd(_)
trimEnd(text) ==
    IF text # <<>> /\ isWhitespace(text[Len(text)])
    THEN trimEnd(SubSeq(text, 1, Len(text) - 1))
    ELSE text

trim(text) == trimEnd(trimStart(text))

\* the markers dropped but the text left untrimmed
normalizeTextNoTrim(text) == stripStars(stripMarkers(text, 0))

normalizeText(text) == trim(stripStars(stripMarkers(text, 0)))

\* lines.join("\n")
RECURSIVE join(_)
join(ls) ==
    IF ls = <<>> THEN <<>>
    ELSE IF Len(ls) = 1 THEN ls[1]
    ELSE ls[1] \o <<"\n">> \o join(Tail(ls))

\* m.replace(/_/g, "\0") on the columns [from, to) of the text
maskRange(text, from, to) ==
    [k \in 1..Len(text) |->
        IF from < k /\ k <= to /\ text[k] = "_" THEN "NUL" ELSE text[k]]

\* a lazy delimited pattern tried with its body read up to column j: the
\* column past the closing delimiter, or -1
RECURSIVE closeDelimited(_, _, _, _)
closeDelimited(text, close, bodyChars, j) ==
    IF startsWithAt(text, close, j) THEN j + Len(close)
    ELSE IF j < Len(text) /\ (bodyChars = {} \/ text[j + 1] \in bodyChars)
    THEN closeDelimited(text, close, bodyChars, j + 1)
    ELSE -1

\* text.replace(/open BODY*? close/g, (m) => m.replace(/_/g, "\0")) from
\* column i on; bodyChars = {} stands for [\s\S]
RECURSIVE maskDelimited(_, _, _, _, _)
maskDelimited(text, open, close, bodyChars, i) ==
    IF i >= Len(text) THEN text
    ELSE LET end == IF startsWithAt(text, open, i)
                    THEN closeDelimited(text, close, bodyChars, i + Len(open))
                    ELSE -1
         IN  IF end >= 0
             THEN maskDelimited(maskRange(text, i, end), open, close, bodyChars, end)
             ELSE maskDelimited(text, open, close, bodyChars, i + 1)

\* the underscores of code left as they are
maskCodeNever(blockLines) == blockLines

\* the fenced and the inline code patterns, one after the other; the math,
\* link and URL patterns need "$", "[" or "http", which no source text of the
\* alphabet holds, and leave it as it is
maskCode(blockLines) ==
    LET fence == <<"grave", "grave", "grave">>
        fenced == maskDelimited(blockLines, fence, fence, {}, 0)
    IN  maskDelimited(fenced, <<"grave">>, <<"grave">>,
                      (SourceAlphabet \cup {"NUL"}) \ {"grave"}, 0)

\* match[1].replace(/\0/g, "_")
restore(text) == [k \in 1..Len(text) |-> IF text[k] = "NUL" THEN "_" ELSE text[k]]

\* text.split("\n").slice(lineStart, lineEnd + 1).join("\n")
blockLinesOf(sourceLines, sectionInfo) ==
    join(slice(sourceLines, sectionInfo.lineStart, sectionInfo.lineEnd + 1))

NoSectionInfo == [available |-> FALSE]

\* null without section info, else the normalized contents of the matches on
\* the masked lines of the block
getUnderscoreTexts(sourceLines, sectionInfo) ==
    IF ~sectionInfo.available THEN [null |-> TRUE, texts |-> {}]
    ELSE LET blockLines == maskCode(blockLinesOf(sourceLines, sectionInfo))
             matches == execAll(blockLines)
         IN  [null |-> FALSE,
              texts |-> {normalizeText(restore(slice(blockLines, matches[k].index + 1,
                                                      matches[k].end - 1))) :
                            k \in 1..Len(matches)}]

\* an em is tagged whether or not it sits in code, pre or math
tagEmEvenInsideCode(el, underscoreTexts) ==
    IF el.tag = "em" /\ normalizeText(el.textContent) \in underscoreTexts
    THEN [el EXCEPT !.classList = @ \cup {"underscore-em"}]
    ELSE el

\* the callback of querySelectorAll("em").forEach on one element of the block
tagEm(el, underscoreTexts) ==
    IF /\ el.tag = "em"
       /\ ~el.insideCode
       /\ normalizeText(el.textContent) \in underscoreTexts
    THEN [el EXCEPT !.classList = @ \cup {"underscore-em"}]
    ELSE el

transformElement(root, sourceLines, sectionInfo) ==
    LET underscoreTexts == getUnderscoreTexts(sourceLines, sectionInfo)
    IN  IF underscoreTexts.null \/ underscoreTexts.texts = {} THEN root
        ELSE [e \in 1..Len(root) |-> tagEm(root[e], underscoreTexts.texts)]

\* the post-processor is run on a rendered block
TransformElement ==
    /\ ~query.asked
    /\ query' = [asked |-> TRUE, root |-> view.root,
                 underscoreTexts |-> getUnderscoreTexts(lines, view.sectionInfo)]
    /\ view' = [view EXCEPT !.root = transformElement(view.root, lines, view.sectionInfo)]
    /\ UNCHANGED <<lines, cursor, calls>>

\* the source texts, as their lines
Sources == {splitLines(text, 1, <<>>) : text \in LinesOver(SourceAlphabet, MaxSourceLen)}

\* ctx.getSectionInfo(block): null, or a range of lines of the source
SectionInfos(sourceLines) ==
    {NoSectionInfo} \cup
    {si \in [available : {TRUE}, lineStart : 0..(Len(sourceLines) - 1),
             lineEnd : 0..(Len(sourceLines) - 1)] : si.lineStart <= si.lineEnd}

\* an em, an em inside code, pre or math, or a strong, with some text
Elements ==
    {[tag |-> shape[1], insideCode |-> shape[2], textContent |-> text, classList |-> {}] :
        shape \in {<<"em", FALSE>>, <<"em", TRUE>>, <<"strong", FALSE>>},
        text \in LinesOver(TextAlphabet, MaxTextLen)}

\* the rendered blocks: no element or one
Roots == {<<>>} \cup {<<el>> : el \in Elements}

InitReading ==
    /\ lines \in Sources
    /\ view \in {[sectionInfo |-> si, root |-> root] :
                    si \in SectionInfos(lines), root \in Roots}
    /\ cursor = NoCursor
    /\ query = NoQuery
    /\ calls = <<>>

NextReading == TransformElement

SpecReading == InitReading /\ [][NextReading]_vars

----------------------------------------------------------------------------
(* Properties of getUnderlineState *)

\* column i of the line holds an underscore; a column outside the line does not
IsMark(line, i) == i \in 0..(Len(line) - 1) /\ line[i + 1] = "_"

UState(u, mf, mt, cf, ct) ==
    [isUnderlined |-> u, markFrom |-> mf, markTo |-> mt,
     contentFrom |-> cf, contentTo |-> ct]

MarksIncluded(line, f, t) ==
    t - f >= 2 /\ IsMark(line, f) /\ IsMark(line, t - 1) /\ ~IsMark(line, f + 1)

MarksExcluded(line, f, t) ==
    /\ f > 0 /\ t < Len(line)
    /\ IsMark(line, f - 1) /\ IsMark(line, t)
    /\ ~IsMark(line, f - 2) /\ ~IsMark(line, t + 1)

\* C1: for every line and range [from, to), getUnderlineState returns the
\* marks-included result if that case applies, else the marks-excluded result
\* if that case applies, else the not-underlined result over [from, to); and
\* in every underlined result the two mark columns hold underscores and the
\* content is the marks range without its two end columns.
C1_ThreeWayClassification ==
    query.asked =>
        LET l == query.line
            f == query.from
            t == query.to
            s == query.state
        IN  /\ MarksIncluded(l, f, t) => s = UState(TRUE, f, t, f + 1, t - 1)
            /\ ~MarksIncluded(l, f, t) /\ MarksExcluded(l, f, t)
                    => s = UState(TRUE, f - 1, t + 1, f, t)
            /\ ~MarksIncluded(l, f, t) /\ ~MarksExcluded(l, f, t)
                    => s = UState(FALSE, f, t, f, t)
            /\ s.isUnderlined =>
                    /\ IsMark(l, s.markFrom) /\ IsMark(l, s.markTo - 1)
                    /\ s.contentFrom = s.markFrom + 1
                    /\ s.contentTo = s.markTo - 1

\* a content selection between two single marks, with a second underscore
\* two columns further left that is not adjacent to the mark, was classified
C1_Witness ==
    /\ query.asked
    /\ query.state.isUnderlined
    /\ query.state.contentFrom = query.from
    /\ query.from >= 3
    /\ IsMark(query.line, query.from - 3)

\* the line holds __x__ from column p on, x a run of n >= 1 non-underscores
HasStrongAt(line, p, n) ==
    /\ n >= 1 /\ p >= 0 /\ p + n + 4 <= Len(line)
    /\ IsMark(line, p) /\ IsMark(line, p + 1)
    /\ \A i \in (p + 2)..(p + n + 1) : ~IsMark(line, i)
    /\ IsMark(line, p + n + 2) /\ IsMark(line, p + n + 3)

\* the three ranges aligned to __x__: x, _x_ and __x__
AlignedToStrong(line, f, t) ==
    \E p \in 0..Len(line), n \in 1..Len(line) :
        /\ HasStrongAt(line, p, n)
        /\ \/ f = p + 2 /\ t = p + n + 2
           \/ f = p + 1 /\ t = p + n + 3
           \/ f = p /\ t = p + n + 4

\* C2: double-underscore immunity: on a line containing __x__ (x a non-empty
\* run without underscores) getUnderlineState reports isUnderlined = FALSE
\* for the range of x, of x with one underscore on each side, and of __x__.
C2_DoubleUnderscoreImmunity ==
    (query.asked /\ AlignedToStrong(query.line, query.from, query.to))
        => ~query.state.isUnderlined

----------------------------------------------------------------------------
(* Properties of applySingleLineToggle *)

IsSingle(c) == c.op = "applySingleLineToggle"

\* the line the call worked on, before and after
LineBefore(c) == c.before[c.args.lineNum + 1]
LineAfter(c) == c.after[c.args.lineNum + 1]

\* the call wrapped a non-empty range that was not classified as underlined
Wrapped(c) ==
    /\ IsSingle(c)
    /\ c.args.selFrom < c.args.selTo
    /\ ~getUnderlineState(LineBefore(c), c.args.selFrom, c.args.selTo).isUnderlined

\* call d is applySingleLineToggle on the content range call c produced
OnContentOf(c, d) ==
    /\ IsSingle(d)
    /\ d.args.lineNum = c.args.lineNum
    /\ d.args.selFrom = c.args.selFrom + 1
    /\ d.args.selTo = c.args.selTo + 1

\* C3 as stated: a wrap of any non-empty, not underlined range followed by
\* applySingleLineToggle on the content range [from+1, to+1) returns the line
\* to its original text.
C3_RoundTripAnyRange ==
    \A k \in 1..(Len(calls) - 1) :
        (Wrapped(calls[k]) /\ OnContentOf(calls[k], calls[k + 1]))
            => calls[k + 1].after = calls[k].before

NoMarkBeside(c) ==
    /\ ~IsMark(LineBefore(c), c.args.selFrom - 1)
    /\ ~IsMark(LineBefore(c), c.args.selTo)

\* C3 amended: a wrap of a non-empty, not underlined range whose neighbouring
\* characters (where they exist) are not underscores, followed by
\* applySingleLineToggle on the content range [from+1, to+1), returns the
\* line to its original text; with an underscore beside the range the second
\* call wraps again and the line is four characters longer than the original.
C3_RoundTripNoMarkBeside ==
    \A k \in 1..(Len(calls) - 1) :
        (Wrapped(calls[k]) /\ OnContentOf(calls[k], calls[k + 1]))
            => IF NoMarkBeside(calls[k])
               THEN calls[k + 1].after = calls[k].before
               ELSE Len(LineAfter(calls[k + 1])) = Len(LineBefore(calls[k])) + 4

\* a range holding an underscore, with no underscore beside it, was wrapped
\* and its content range toggled again
C3_Witness ==
    /\ Len(calls) = 2
    /\ Wrapped(calls[1]) /\ OnContentOf(calls[1], calls[2])
    /\ NoMarkBeside(calls[1])
    /\ IsMark(LineBefore(calls[1]), calls[1].args.selFrom)
    /\ calls[2].after = calls[1].before

Unwrapped(c) ==
    /\ IsSingle(c)
    /\ c.args.selFrom < c.args.selTo
    /\ getUnderlineState(LineBefore(c), c.args.selFrom, c.args.selTo).isUnderlined

\* line without its columns i and j (i < j)
Without(line, i, j) ==
    SubSeq(line, 1, i) \o SubSeq(line, i + 2, j) \o SubSeq(line, j + 2, Len(line))

\* C9: on a non-empty range classified as underlined one write replaces
\* [markFrom, markTo) by the bare content: the two marks disappear, every
\* other character is unchanged, and the selection is set to
\* [markFrom, markFrom + content length).
C9_UnwrapAndSelectContent ==
    \A k \in 1..Len(calls) :
        Unwrapped(calls[k]) =>
            LET c == calls[k]
                l == LineBefore(c)
                n == c.args.lineNum
                s == getUnderlineState(l, c.args.selFrom, c.args.selTo)
                len == s.markTo - s.markFrom - 2
            IN  /\ IsMark(l, s.markFrom) /\ IsMark(l, s.markTo - 1)
                /\ LineAfter(c) = Without(l, s.markFrom, s.markTo - 1)
                /\ c.writes = <<[text |-> SubSeq(l, s.markFrom + 2, s.markTo - 1),
                                 from |-> Pos(n, s.markFrom),
                                 to |-> Pos(n, s.markTo)]>>
                /\ c.selCalls = <<[from |-> Pos(n, s.markFrom),
                                   to |-> Pos(n, s.markFrom + len)]>>
                /\ c.cursorAfter =
                       Selection(Pos(n, s.markFrom), Pos(n, s.markFrom + len))

\* the marks around a content range in the middle of a line were stripped
C9_Witness ==
    /\ Len(calls) >= 1
    /\ Unwrapped(calls[1])
    /\ ~IsMark(LineBefore(calls[1]), calls[1].args.selFrom)
    /\ calls[1].args.selFrom >= 2
    /\ calls[1].args.selTo + 1 < Len(LineBefore(calls[1]))
    /\ Len(LineAfter(calls[1])) = Len(LineBefore(calls[1])) - 2

\* C10: applySingleLineToggle with from = to issues no buffer write and no
\* selection or cursor call; the buffer and the cursor are as before.
C10_EmptyRangeNoOp ==
    \A k \in 1..Len(calls) :
        (IsSingle(calls[k]) /\ calls[k].args.selFrom = calls[k].args.selTo) =>
            /\ calls[k].writes = <<>>
            /\ calls[k].selCalls = <<>>
            /\ calls[k].after = calls[k].before
            /\ calls[k].cursorAfter = calls[k].cursorBefore

\* an empty range between two underscores was toggled
C10_Witness ==
    /\ Len(calls) >= 1
    /\ IsSingle(calls[1])
    /\ calls[1].args.selFrom = calls[1].args.selTo
    /\ IsMark(LineBefore(calls[1]), calls[1].args.selFrom - 1)
    /\ IsMark(LineBefore(calls[1]), calls[1].args.selFrom)

----------------------------------------------------------------------------
(* Properties of applyMultiLineToggle *)

IsMulti(c) == c.op = "applyMultiLineToggle"

SelectedLines(c) == (c.args.selFrom.line)..(c.args.selTo.line)

\* the selected slice of line i: from the selection's start on its first
\* line, up to the selection's end on its last line, the whole line between
SliceStart(c, i) == IF i = c.args.selFrom.line THEN c.args.selFrom.ch ELSE 0
SliceEnd(c, i) ==
    IF i = c.args.selTo.line /\ c.args.selTo.ch < Len(c.before[i + 1])
    THEN c.args.selTo.ch
    ELSE Len(c.before[i + 1])

NonEmptySlices(c) == {i \in SelectedLines(c) : SliceStart(c, i) < SliceEnd(c, i)}

SliceState(c, i) == getUnderlineState(c.before[i + 1], SliceStart(c, i), SliceEnd(c, i))

UnderlinedSlices(c) == {i \in NonEmptySlices(c) : SliceState(c, i).isUnderlined}

\* the writes of call c that touch line i
WritesOn(c, i) == {k \in 1..Len(c.writes) : c.writes[k].from.line = i}

\* C5: shouldRemove is true exactly when twice the number of non-empty slices
\* classified as underlined exceeds the number of non-empty slices; on a tie
\* and with no non-empty slice it is false and every write inserts two marks.
C5_StrictMajorityVote ==
    \A k \in 1..Len(calls) :
        IsMulti(calls[k]) =>
            LET c == calls[k]
                u == Cardinality(UnderlinedSlices(c))
                n == Cardinality(NonEmptySlices(c))
            IN  /\ c.vote.shouldRemove <=> (2 * u > n)
                /\ (2 * u = n) =>
                      /\ ~c.vote.shouldRemove
                      /\ \A w \in 1..Len(c.writes) :
                            Len(c.writes[w].text) =
                                c.writes[w].to.ch - c.writes[w].from.ch + 2
                      /\ \A i \in NonEmptySlices(c) \ UnderlinedSlices(c) :
                            Len(c.after[i + 1]) = Len(c.before[i + 1]) + 2

\* two of four non-empty slices were underlined
C5_Witness ==
    /\ Len(calls) = 1
    /\ IsMulti(calls[1])
    /\ Cardinality(NonEmptySlices(calls[1])) = 4
    /\ Cardinality(UnderlinedSlices(calls[1])) = 2
    /\ ~calls[1].vote.shouldRemove
    /\ Len(calls[1].writes) = 2

\* C6: each non-empty slice whose state differs from the vote's target gets
\* exactly one write (marks stripped when removing, slice wrapped when
\* inserting) and every other line gets none and keeps its text; the number
\* of writes is `underlined` when removing and `total - underlined` otherwise.
C6_OneEditPerDifferingSlice ==
    \A k \in 1..Len(calls) :
        IsMulti(calls[k]) =>
            LET c == calls[k]
                rm == c.vote.shouldRemove
            IN  /\ \A i \in SelectedLines(c) :
                      LET l == c.before[i + 1]
                          f == SliceStart(c, i)
                          t == SliceEnd(c, i)
                          s == SliceState(c, i)
                      IN  IF i \in UnderlinedSlices(c) /\ rm
                          THEN /\ Cardinality(WritesOn(c, i)) = 1
                               /\ c.after[i + 1] = Without(l, s.markFrom, s.markTo - 1)
                          ELSE IF i \in NonEmptySlices(c) \ UnderlinedSlices(c) /\ ~rm
                          THEN /\ Cardinality(WritesOn(c, i)) = 1
                               /\ c.after[i + 1] =
                                     SubSeq(l, 1, f) \o <<"_">> \o SubSeq(l, f + 1, t)
                                        \o <<"_">> \o SubSeq(l, t + 1, Len(l))
                          ELSE /\ WritesOn(c, i) = {}
                               /\ c.after[i + 1] = l
                /\ Len(c.writes) =
                      IF rm THEN c.vote.underlined
                      ELSE c.vote.total - c.vote.underlined

\* a majority removal that strips two lines and leaves a plain one untouched
C6_Witness ==
    /\ Len(calls) = 1
    /\ IsMulti(calls[1])
    /\ calls[1].vote.shouldRemove
    /\ calls[1].vote.total = 3
    /\ Len(calls[1].writes) = 2
    /\ \E i \in NonEmptySlices(calls[1]) :
          calls[1].after[i + 1] = calls[1].before[i + 1]

IsMultiLine(c) == IsMulti(c) /\ c.args.selFrom.line < c.args.selTo.line

\* C7: for a multi-line selection the slice of line i is [selFrom.ch, length)
\* on the first line, [0, min(selTo.ch, length)) on the last and [0, length)
\* between; the non-empty ones are those counted in total, the underlined
\* ones among them those counted in underlined, a wrap covers exactly the
\* slice, and a line with an empty slice gets no write.
C7_SlicesAndEmptyOnes ==
    \A k \in 1..Len(calls) :
        IsMultiLine(calls[k]) =>
            LET c == calls[k]
            IN  /\ c.vote.total = Cardinality(NonEmptySlices(c))
                /\ c.vote.underlined = Cardinality(UnderlinedSlices(c))
                /\ \A w \in 1..Len(c.writes) :
                      LET i == c.writes[w].from.line
                      IN  /\ c.writes[w].to.line = i
                          /\ i \in NonEmptySlices(c)
                          /\ ~c.vote.shouldRemove =>
                                /\ c.writes[w].from.ch = SliceStart(c, i)
                                /\ c.writes[w].to.ch = SliceEnd(c, i)
                /\ \A i \in SelectedLines(c) \ NonEmptySlices(c) :
                      c.after[i + 1] = c.before[i + 1]

\* a selection starting at the end of its first line, over a non-empty
\* interior line and a part of its last line
C7_Witness ==
    /\ Len(calls) = 1
    /\ IsMultiLine(calls[1])
    /\ calls[1].args.selTo.line >= calls[1].args.selFrom.line + 2
    /\ calls[1].args.selFrom.ch > 0
    /\ calls[1].args.selFrom.line \notin NonEmptySlices(calls[1])
    /\ calls[1].args.selTo.ch > 0
    /\ calls[1].args.selTo.ch < Len(calls[1].before[calls[1].args.selTo.line + 1])
    /\ calls[1].vote.total = 2
    /\ Len(calls[1].writes) = 2

----------------------------------------------------------------------------
(* Properties of toggleUnderlineCommand *)

IsCommand(c) == c.op = "toggleUnderlineCommand"

\* calls k and k + 1 are the command invoked twice on the same selection
TwiceOnSameSelection(k) ==
    /\ IsCommand(calls[k]) /\ IsCommand(calls[k + 1])
    /\ calls[k + 1].cursorBefore = calls[k].cursorBefore

IsWordChar(line, i) == i \in 0..(Len(line) - 1) /\ line[i + 1] \notin StopChars

\* the cursor of call c is a point in a word, after the word's first
\* character, and no underscore stands right before or right after that word
InWordAwayFromMarks(c) ==
    LET l == c.before[c.cursorBefore.from.line + 1]
        ch == c.cursorBefore.from.ch
    IN  /\ c.cursorBefore.from = c.cursorBefore.to
        /\ IsWordChar(l, ch - 1)
        /\ ch = Len(l) \/ IsWordChar(l, ch)
        /\ \E f \in 0..(ch - 1), t \in ch..Len(l) :
              /\ \A i \in f..(t - 1) : IsWordChar(l, i)
              /\ ~IsWordChar(l, f - 1) /\ ~IsMark(l, f - 1)
              /\ ~IsWordChar(l, t) /\ ~IsMark(l, t)

----------------------------------------------------------------------------
(* Properties of detectWordRange *)

\* C11: for every line and column 0 <= ch <= length, detectWordRange returns
\* the empty range (ch, ch) when the character at ch is a stop character, and
\* otherwise the maximal range from <= ch <= to without a stop character:
\* from is 0 or follows a stop character, to is the length or the column of
\* a stop character. A cursor at the end of the line right after a word
\* returns that word.
C11_MaximalWordAroundColumn ==
    query.asked =>
        LET l == query.line
            ch == query.ch
            w == query.word
        IN  IF ch < Len(l) /\ l[ch + 1] \in StopChars
            THEN w = [from |-> ch, to |-> ch]
            ELSE /\ 0 <= w.from /\ w.from <= ch /\ ch <= w.to /\ w.to <= Len(l)
                 /\ \A i \in w.from..(w.to - 1) : IsWordChar(l, i)
                 /\ w.from = 0 \/ l[w.from] \in StopChars
                 /\ w.to = Len(l) \/ l[w.to + 1] \in StopChars
                 /\ (ch = Len(l) /\ IsWordChar(l, ch - 1)) => (w.from < ch /\ w.to = ch)

\* the cursor stood at the end of the line after a two-letter word that
\* follows a stop character
C11_Witness ==
    /\ query.asked
    /\ query.ch = Len(query.line)
    /\ query.word = [from |-> query.ch - 2, to |-> query.ch]
    /\ query.word.from > 0

----------------------------------------------------------------------------
(* Properties of the command's dispatch and of the empty pair *)

\* what a handler left behind, as recorded in a call
Outcome(editor) ==
    [after |-> editor.lines, cursorAfter |-> editor.cursor,
     writes |-> editor.writes, selCalls |-> editor.selCalls, vote |-> editor.vote]

OutcomeOf(c) ==
    [after |-> c.after, cursorAfter |-> c.cursorAfter,
     writes |-> c.writes, selCalls |-> c.selCalls, vote |-> c.vote]

EditorBefore(c) == Editor(c.before, c.cursorBefore)

CursorLine(c) == c.before[c.cursorBefore.from.line + 1]

NoSelection(c) == c.cursorBefore.from = c.cursorBefore.to

\* C12: the command dispatches on the selection: with no selection and a
\* non-empty detected word it does what applySingleLineToggle does on the
\* word's range; with a non-empty selection on one line what
\* applySingleLineToggle does on (from.ch, to.ch); with a selection spanning
\* lines what applyMultiLineToggle does, a vote and writes and no selection
\* call.
C12_DispatchOnSelection ==
    \A k \in 1..Len(calls) :
        IsCommand(calls[k]) =>
            LET c == calls[k]
                from == c.cursorBefore.from
                to == c.cursorBefore.to
                w == detectWordRange(CursorLine(c), from.ch)
            IN  /\ (NoSelection(c) /\ w.from < w.to) =>
                      /\ OutcomeOf(c) = Outcome(applySingleLineToggle(
                             EditorBefore(c), from.line, w.from, w.to))
                      /\ Len(c.writes) = 1 /\ ~c.vote.voted
                /\ (from.line = to.line /\ from.ch < to.ch) =>
                      /\ OutcomeOf(c) = Outcome(applySingleLineToggle(
                             EditorBefore(c), from.line, from.ch, to.ch))
                      /\ Len(c.writes) = 1 /\ ~c.vote.voted
                /\ from.line < to.line =>
                      /\ OutcomeOf(c) = Outcome(applyMultiLineToggle(
                             EditorBefore(c), from, to))
                      /\ c.vote.voted /\ c.selCalls = <<>>
                      /\ Len(c.writes) =
                            IF c.vote.shouldRemove THEN c.vote.underlined
                            ELSE c.vote.total - c.vote.underlined

\* a selection from one line into the next, starting and ending at the same
\* column, was toggled by vote and both lines were written
C12_Witness ==
    /\ Len(calls) >= 1
    /\ IsCommand(calls[1])
    /\ calls[1].cursorBefore.from.line < calls[1].cursorBefore.to.line
    /\ calls[1].cursorBefore.from.ch = calls[1].cursorBefore.to.ch
    /\ calls[1].vote.voted
    /\ Len(calls[1].writes) = 2

\* the call is the command's empty-pair insertion case
InsertsPair(c) ==
    /\ IsCommand(c)
    /\ NoSelection(c)
    /\ LET w == detectWordRange(CursorLine(c), c.cursorBefore.from.ch)
       IN  w.from = w.to
    /\ ~(/\ IsMark(CursorLine(c), c.cursorBefore.from.ch - 1)
         /\ IsMark(CursorLine(c), c.cursorBefore.from.ch))

\* every line but line n is the same before and after the call
OtherLinesKept(c, n) ==
    /\ Len(c.after) = Len(c.before)
    /\ \A i \in 1..Len(c.before) : i # n + 1 => c.after[i] = c.before[i]

BetweenMarks(c) ==
    /\ IsCommand(c)
    /\ NoSelection(c)
    /\ IsMark(CursorLine(c), c.cursorBefore.from.ch - 1)
    /\ IsMark(CursorLine(c), c.cursorBefore.from.ch)

\* C14: with no selection and the cursor at column ch between two adjacent
\* underscores, the command deletes exactly the columns ch - 1 and ch,
\* leaves every other character of the buffer unchanged and inserts nothing.
C14_DeletesEmptyPair ==
    \A k \in 1..Len(calls) :
        BetweenMarks(calls[k]) =>
            LET c == calls[k]
                n == c.cursorBefore.from.line
                ch == c.cursorBefore.from.ch
                l == CursorLine(c)
            IN  /\ c.after[n + 1] = SubSeq(l, 1, ch - 1) \o SubSeq(l, ch + 2, Len(l))
                /\ OtherLinesKept(c, n)
                /\ c.writes = <<[text |-> <<>>, from |-> Pos(n, ch - 1),
                                 to |-> Pos(n, ch + 1)]>>

\* the pair __ alone on the second line was deleted
C14_Witness ==
    /\ Len(calls) >= 1
    /\ BetweenMarks(calls[1])
    /\ calls[1].cursorBefore.from.line = 1
    /\ CursorLine(calls[1]) = <<"_", "_">>
    /\ calls[1].after[2] = <<>>

\* C15: after the command has inserted an empty pair at column ch and put
\* the cursor at ch + 1, the command invoked again at that cursor deletes
\* that pair, and the buffer is what it was before the insertion.
C15_EmptyPairRoundTrip ==
    \A k \in 1..(Len(calls) - 1) :
        (/\ InsertsPair(calls[k])
         /\ IsCommand(calls[k + 1])
         /\ calls[k + 1].cursorBefore = calls[k].cursorAfter)
            => /\ calls[k + 1].after = calls[k].before
               /\ Len(calls[k + 1].writes) = 1
               /\ calls[k + 1].writes[1].text = <<>>

\* a pair inserted at the start of a line that begins with an underscore was
\* deleted again
C15_Witness ==
    /\ Len(calls) = 2
    /\ InsertsPair(calls[1])
    /\ calls[1].cursorBefore.from.ch = 0
    /\ IsMark(CursorLine(calls[1]), 0)
    /\ calls[2].cursorBefore = calls[1].cursorAfter
    /\ lines = calls[1].before

----------------------------------------------------------------------------
(* Properties of the scan *)

\* C16: every span of a scan has underscores at markFrom and markTo - 1,
\* contentFrom = markFrom + 1, contentTo = markTo - 1, and a non-empty content
\* without underscore or newline; the spans ascend without overlap; a lone
\* underscore yields no span and __ is never paired as an empty span.
C16_SpanInvariants ==
    query.asked =>
        LET t == query.text
            S == query.spans
        IN  /\ \A k \in 1..Len(S) :
                  /\ IsMark(t, S[k].markFrom) /\ IsMark(t, S[k].markTo - 1)
                  /\ S[k].contentFrom = S[k].markFrom + 1
                  /\ S[k].contentTo = S[k].markTo - 1
                  /\ S[k].contentFrom < S[k].contentTo
                  /\ \A i \in S[k].contentFrom..(S[k].contentTo - 1) :
                        t[i + 1] \notin {"_", "\n"}
            /\ \A k \in 1..(Len(S) - 1) : S[k].markTo <= S[k + 1].markFrom
            /\ Cardinality({i \in 0..(Len(t) - 1) : IsMark(t, i)}) = 1 => S = <<>>
            /\ t = <<"_", "_">> => S = <<>>

\* two spans were found on a text that opens with an adjacent pair of
\* underscores, the first span starting on the second of them
C16_Witness ==
    /\ query.asked
    /\ Len(query.spans) = 2
    /\ query.spans[1].markFrom = 1
    /\ IsMark(query.text, 0)

\* columns i < j hold underscores with at least one character between them,
\* none of them an underscore or a newline
PairAt(text, i, j) ==
    /\ IsMark(text, i) /\ IsMark(text, j) /\ i + 1 < j
    /\ \A m \in (i + 1)..(j - 1) : text[m + 1] \notin {"_", "\n"}

IsSpan(S, i, j) == \E k \in 1..Len(S) : S[k].markFrom = i /\ S[k].markTo = j + 1

\* C17: pairing is shortest-match and consumes its marks: every span closes
\* on the first underscore after its opening mark, no mark belongs to two
\* spans, and a pair of underscores that could be a span is one unless its
\* opening underscore is the closing mark of a span; so _a_ _a_ yields two
\* spans and _a_a_ one, over columns 0..3.
C17_ShortestMatchConsumesMarks ==
    query.asked =>
        LET t == query.text
            S == query.spans
        IN  /\ \A k \in 1..Len(S) : PairAt(t, S[k].markFrom, S[k].markTo - 1)
            /\ \A k \in 1..Len(S), m \in 1..Len(S) :
                  k # m => S[k].markTo - 1 # S[m].markFrom
            /\ \A i \in 0..(Len(t) - 1), j \in 0..(Len(t) - 1) :
                  PairAt(t, i, j) =>
                      \/ IsSpan(S, i, j)
                      \/ \E k \in 1..Len(S) : S[k].markTo - 1 = i
            /\ t = <<"_", "a", "_", " ", "_", "a", "_">> =>
                  S = <<[markFrom |-> 0, contentFrom |-> 1, contentTo |-> 2, markTo |-> 3],
                        [markFrom |-> 4, contentFrom |-> 5, contentTo |-> 6, markTo |-> 7]>>
            /\ t = <<"_", "a", "_", "a", "_">> =>
                  S = <<[markFrom |-> 0, contentFrom |-> 1, contentTo |-> 2, markTo |-> 3]>>

\* _a_a_a_ was scanned: the second and third underscore pair up but the
\* second is consumed as a closing mark, so the spans are columns 0..3 and 4..7
C17_Witness ==
    /\ query.asked
    /\ query.text = <<"_", "a", "_", "a", "_", "a", "_">>
    /\ Len(query.spans) = 2
    /\ query.spans[2].markFrom = 4

\* C18: the scan tells single from double underscores: on a text containing
\* __x__ no span has an opening or closing mark on one of the four underscores
\* of the double delimiters, so __x__ alone yields no span.
C18_DoubleUnderscoreNoSpan ==
    query.asked =>
        LET t == query.text
            S == query.spans
        IN  /\ \A p \in 0..Len(t), n \in 1..Len(t) :
                  HasStrongAt(t, p, n) =>
                      \A k \in 1..Len(S) :
                          {S[k].markFrom, S[k].markTo - 1}
                              \cap {p, p + 1, p + n + 2, p + n + 3} = {}
            /\ t = <<"_", "_", "a", "_", "_">> => S = <<>>

NoNewline(text) == \A i \in 1..Len(text) : text[i] # "\n"

\* C19: the scan and getUnderlineState agree on a line without exclusion
\* regions: each span is classified as underlined both for [markFrom, markTo)
\* and for [contentFrom, contentTo), with the span's marks; and every range
\* classified as underlined has the marks of a span of the line.
C19_ScanAgreesWithClassifier ==
    (query.asked /\ NoNewline(query.text)) =>
        LET t == query.text
            S == query.spans
        IN  /\ \A k \in 1..Len(S) :
                  LET whole == getUnderlineState(t, S[k].markFrom, S[k].markTo)
                      inner == getUnderlineState(t, S[k].contentFrom, S[k].contentTo)
                  IN  /\ whole.isUnderlined /\ inner.isUnderlined
                      /\ whole.markFrom = S[k].markFrom /\ whole.markTo = S[k].markTo
                      /\ inner.markFrom = S[k].markFrom /\ inner.markTo = S[k].markTo
            /\ \A f \in 0..Len(t), to \in 0..Len(t) :
                  (f <= to /\ getUnderlineState(t, f, to).isUnderlined) =>
                      \E k \in 1..Len(S) :
                          /\ S[k].markFrom = getUnderlineState(t, f, to).markFrom
                          /\ S[k].markTo = getUnderlineState(t, f, to).markTo

----------------------------------------------------------------------------
(* Properties of buildDecorations *)

\* the document offset p lies inside one of the skipped ranges
InSkipped(p) ==
    \E k \in 1..Len(view.skippedRanges) :
        view.skippedRanges[k].from <= p /\ p < view.skippedRanges[k].to

\* C20: blanking keeps the columns: the sanitized text of every scanned line
\* is as long as the line, holds a blank at every position of the line that
\* lies inside a skipped range and the line's own character everywhere else,
\* so the columns of each span address the same characters of the line.
C20_BlankingKeepsColumns ==
    query.asked =>
        \A i \in 1..Len(query.scans) :
            LET line == query.scans[i].line
                sanitizedLineText == query.scans[i].sanitizedLineText
            IN  /\ line = docLine(lines, line.number)
                /\ Len(sanitizedLineText) = Len(line.text)
                /\ \A c \in 0..(Len(line.text) - 1) :
                      sanitizedLineText[c + 1] =
                          IF InSkipped(line.from + c) THEN " " ELSE line.text[c + 1]
                /\ \A k \in 1..Len(query.scans[i].spans) :
                      LET span == query.scans[i].spans[k]
                      IN  /\ line.from <= span.markFrom /\ span.markTo <= line.to
                          /\ line.text[span.markFrom - line.from + 1] = "_"
                          /\ line.text[span.markTo - 1 - line.from + 1] = "_"

\* two overlapping skipped ranges met the second line of a document, one of
\* them reaching back over the line break, and a span was still found on it
C20_Witness ==
    /\ query.asked
    /\ Len(query.scans) = 2
    /\ Len(view.skippedRanges) = 2
    /\ view.skippedRanges[1].from < query.scans[2].line.from
    /\ view.skippedRanges[1].to > query.scans[2].line.from
    /\ view.skippedRanges[2].from >= query.scans[2].line.from
    /\ view.skippedRanges[2].to <= view.skippedRanges[1].to
    /\ query.scans[2].spans # <<>>

\* C21: no underscore inside a skipped range is used as a mark: no span of a
\* scanned line has its opening or its closing mark at an offset that lies
\* inside a skipped range.
C21_NoMarkInsideSkipped ==
    query.asked =>
        \A i \in 1..Len(query.scans) :
            \A k \in 1..Len(query.scans[i].spans) :
                /\ ~InSkipped(query.scans[i].spans[k].markFrom)
                /\ ~InSkipped(query.scans[i].spans[k].markTo - 1)

\* a scanned line holds an underscore inside a skipped range, after a span
\* that was found on the same line
C21_Witness ==
    /\ query.asked
    /\ \E i \in 1..Len(query.scans) :
          LET scan == query.scans[i]
          IN  /\ Len(scan.spans) = 1
              /\ \E c \in 0..(Len(scan.line.text) - 1) :
                    /\ scan.line.text[c + 1] = "_"
                    /\ InSkipped(scan.line.from + c)
                    /\ scan.line.from + c >= scan.spans[1].markTo

----------------------------------------------------------------------------
(* Properties of transformElement *)

\* the normalized contents of the underscore spans on the lines lineStart to
\* lineEnd of the source, each line scanned by itself once the underscores
\* of code are masked
SpanTextsOfBlock ==
    LET masked == splitLines(maskCode(blockLinesOf(lines, view.sectionInfo)), 1, <<>>)
    IN  UNION {{normalizeText(restore(slice(masked[l], m.index + 1, m.end - 1))) :
                   m \in {execAll(masked[l])[k] : k \in 1..Len(execAll(masked[l]))}} :
               l \in 1..Len(masked)}

Tagged(el) == "underscore-em" \in el.classList

\* the block is one em outside code, pre and math with the given text
IsEmWithText(text) ==
    /\ Len(view.root) = 1
    /\ view.root[1].tag = "em" /\ ~view.root[1].insideCode
    /\ view.root[1].textContent = text

\* C22: transformElement tags an element with underscore-em exactly when it
\* is an em outside code, pre and math whose normalized text equals the
\* normalized content of an underscore span of the block's source lines;
\* without section info or without any span the block is left as it was, and
\* an element other than an em is never tagged.  So an em "a" is tagged for
\* the sources _`a`_ and _a _, and not for `_a_`.
C22_ReadingModeClassification ==
    query.asked =>
        /\ Len(view.root) = Len(query.root)
        /\ \A e \in 1..Len(view.root) :
              /\ Tagged(view.root[e]) <=>
                    /\ view.root[e].tag = "em"
                    /\ ~view.root[e].insideCode
                    /\ view.sectionInfo.available
                    /\ normalizeText(view.root[e].textContent) \in SpanTextsOfBlock
              /\ [view.root[e] EXCEPT !.classList = {}] = query.root[e]
              /\ view.root[e].tag # "em" => view.root[e] = query.root[e]
        /\ (~view.sectionInfo.available \/ SpanTextsOfBlock = {}) => view.root = query.root
        /\ (view.sectionInfo.available /\ IsEmWithText(<<"a">>)) =>
              /\ lines = <<<<"_", "grave", "a", "grave", "_">>>> => Tagged(view.root[1])
              /\ lines = <<<<"_", "a", " ", "_">>>> => Tagged(view.root[1])
              /\ lines = <<<<"grave", "_", "a", "_", "grave">>>> => ~Tagged(view.root[1])

\* an em was tagged whose text matches a span only once normalized, on a
\* block that covers the second line of its source only
C22_Witness ==
    /\ query.asked
    /\ view.sectionInfo.available
    /\ view.sectionInfo.lineStart = 1
    /\ Len(view.root) = 1
    /\ Tagged(view.root[1])
    /\ view.root[1].textContent = <<"a", " ">>
    /\ <<"a">> \in query.underscoreTexts.texts

----------------------------------------------------------------------------
(* Properties of the live editor's decorations *)

\* the three decorations of the span are among those built
Decorated(span) ==
    \A k \in 1..3 :
        \E n \in 1..Len(query.decorations) :
            query.decorations[n] = decorationsOf(span)[k]

\* the selection touches the span: they share an offset
TouchesSelection(span) ==
    view.selection.from <= span.markTo /\ span.markFrom <= view.selection.to

\* C23: in the live editor a span that the cursor or the selection overlaps
\* is left undecorated and every other span of the scanned lines, on the
\* same line too, is decorated; with the cursor on no span, all are.
C23_SpanUnderCursorLeftRaw ==
    query.asked =>
        \A i \in 1..Len(query.scans) :
            \A k \in 1..Len(query.scans[i].spans) :
                Decorated(query.scans[i].spans[k])
                    <=> ~TouchesSelection(query.scans[i].spans[k])

----------------------------------------------------------------------------
(* Further properties of getUnderlineState *)

\* C24: classification is idempotent: when getUnderlineState classifies a
\* range as underlined, it classifies the content range it returned as
\* underlined too.
C24_IdempotentClassification ==
    (query.asked /\ query.state.isUnderlined) =>
        getUnderlineState(query.line, query.state.contentFrom,
                          query.state.contentTo).isUnderlined

\* C25: the two detection cases exclude each other: for no line and range do
\* the marks-included and the marks-excluded condition both hold.
C25_CasesMutuallyExclusive ==
    query.asked =>
        ~(/\ MarksIncluded(query.line, query.from, query.to)
          /\ MarksExcluded(query.line, query.from, query.to))

----------------------------------------------------------------------------
(* Further properties of applyMultiLineToggle *)

\* C26: a multi-line toggle writes in strictly descending line order, so at
\* most once per line, and each write is the one that the classification of
\* the line's slice in the buffer before the call (the one the vote counted)
\* determines: an edit on one line changes no other line.
C26_DescendingEditsOnVotedStates ==
    \A k \in 1..Len(calls) :
        IsMulti(calls[k]) =>
            LET c == calls[k]
            IN  /\ \A w \in 1..Len(c.writes), x \in 1..Len(c.writes) :
                      w < x => c.writes[w].from.line > c.writes[x].from.line
                /\ \A w \in 1..Len(c.writes) :
                      LET i == c.writes[w].from.line
                          s == SliceState(c, i)
                          content == slice(c.before[i + 1], s.contentFrom, s.contentTo)
                      IN  /\ c.writes[w].to.line = i
                          /\ IF c.vote.shouldRemove
                             THEN /\ s.isUnderlined
                                  /\ c.writes[w].from.ch = s.markFrom
                                  /\ c.writes[w].to.ch = s.markTo
                                  /\ c.writes[w].text = content
                             ELSE /\ ~s.isUnderlined
                                  /\ c.writes[w].from.ch = SliceStart(c, i)
                                  /\ c.writes[w].to.ch = SliceEnd(c, i)
                                  /\ c.writes[w].text = <<"_">> \o content \o <<"_">>
                /\ Len(c.after) = Len(c.before)
                /\ \A i \in 0..(Len(c.before) - 1) :
                      WritesOn(c, i) = {} => c.after[i + 1] = c.before[i + 1]

\* three lines were unwrapped, the last of them first, each by a write that
\* made its line two characters shorter
C26_Witness ==
    /\ Len(calls) = 1
    /\ IsMulti(calls[1])
    /\ calls[1].vote.shouldRemove
    /\ Len(calls[1].writes) = 3
    /\ calls[1].writes[1].from.line = calls[1].writes[3].from.line + 2
    /\ \A w \in 1..3 :
          Len(calls[1].after[calls[1].writes[w].from.line + 1]) + 2 =
              Len(calls[1].before[calls[1].writes[w].from.line + 1])

----------------------------------------------------------------------------
(* Further properties of buildDecorations *)

\* the document offset p of the line holds an underscore
MarkInLine(line, p) ==
    line.from <= p /\ p < line.to /\ line.text[p - line.from + 1] = "_"

\* an underscore of the line outside every skipped range
OpenMark(line, p) == MarkInLine(line, p) /\ ~InSkipped(p)

\* the next underscore of the line after offset p lies inside a skipped range
NextMarkSkipped(line, p) ==
    \E q \in (p + 1)..(line.to - 1) :
        /\ MarkInLine(line, q) /\ InSkipped(q)
        /\ \A c \in (p + 1)..(q - 1) : ~MarkInLine(line, c)

\* C27 as stated: an opening underscore outside every skipped range whose
\* next underscore on the line lies inside a skipped range is left unpaired:
\* no span starts at it, so no span extends across a skipped range that holds
\* an underscore.
C27_NoSpanAcrossSkippedMark ==
    query.asked =>
        \A i \in 1..Len(query.scans) :
            LET scan == query.scans[i]
            IN  /\ \A p \in scan.line.from..(scan.line.to - 1) :
                      (OpenMark(scan.line, p) /\ NextMarkSkipped(scan.line, p)) =>
                          \A k \in 1..Len(scan.spans) : scan.spans[k].markFrom # p
                /\ \A k \in 1..Len(scan.spans) :
                      \A c \in scan.spans[k].contentFrom..(scan.spans[k].contentTo - 1) :
                          ~(MarkInLine(scan.line, c) /\ InSkipped(c))

\* C27 amended: the underscores inside skipped ranges are invisible to the
\* pairing: every underscore of the line strictly between the marks of a span
\* lies inside a skipped range, and two underscores outside every skipped
\* range, more than one column apart and with no such underscore between
\* them, form a span unless the first of them is the closing mark of a span;
\* so a span does extend across a skipped range that holds an underscore.
C27_SkippedMarksInvisibleToPairing ==
    query.asked =>
        \A i \in 1..Len(query.scans) :
            LET scan == query.scans[i]
            IN  /\ \A k \in 1..Len(scan.spans) :
                      \A c \in scan.spans[k].contentFrom..(scan.spans[k].contentTo - 1) :
                          MarkInLine(scan.line, c) => InSkipped(c)
                /\ \A p \in scan.line.from..(scan.line.to - 1),
                      q \in scan.line.from..(scan.line.to - 1) :
                      (/\ OpenMark(scan.line, p) /\ OpenMark(scan.line, q)
                       /\ p + 1 < q
                       /\ \A c \in (p + 1)..(q - 1) : ~OpenMark(scan.line, c)) =>
                          \/ \E k \in 1..Len(scan.spans) :
                                /\ scan.spans[k].markFrom = p
                                /\ scan.spans[k].markTo = q + 1
                          \/ \E k \in 1..Len(scan.spans) : scan.spans[k].markTo - 1 = p

\* a span starts at an underscore whose next underscore lies inside a skipped
\* range, and closes on the underscore after that range
C27_Witness ==
    /\ query.asked
    /\ \E i \in 1..Len(query.scans) :
          \E k \in 1..Len(query.scans[i].spans) :
              /\ NextMarkSkipped(query.scans[i].line, query.scans[i].spans[k].markFrom)
              /\ OpenMark(query.scans[i].line, query.scans[i].spans[k].markFrom)

----------------------------------------------------------------------------
(* Further properties of toggleUnderlineCommand *)

\* the lines from the selection's first to its last
SelectionLines(c) == (c.cursorBefore.from.line)..(c.cursorBefore.to.line)

\* C28: every write of the command, on whichever path, replaces a range
\* within one line of the selection's lines; the lines outside them keep
\* their text and the buffer keeps its number of lines.
C28_WritesStayInSelectedLines ==
    \A k \in 1..Len(calls) :
        IsCommand(calls[k]) =>
            LET c == calls[k]
            IN  /\ \A w \in 1..Len(c.writes) :
                      /\ c.writes[w].from.line = c.writes[w].to.line
                      /\ c.writes[w].from.line \in SelectionLines(c)
                /\ Len(c.after) = Len(c.before)
                /\ \A i \in 0..(Len(c.before) - 1) :
                      i \notin SelectionLines(c) => c.after[i + 1] = c.before[i + 1]

\* a word on the second line of a buffer of two lines was wrapped and the
\* next invocation changed that line again, the first line being non-empty
C28_Witness ==
    /\ Len(calls) = 2
    /\ IsCommand(calls[1]) /\ IsCommand(calls[2])
    /\ Len(calls[1].before) = 2
    /\ NoSelection(calls[1])
    /\ calls[1].cursorBefore.from.line = 1
    /\ Len(calls[1].writes) = 1
    /\ Len(calls[1].writes[1].text) = 3
    /\ calls[1].before[1] # <<>>
    /\ calls[2].after[2] # calls[1].after[2]

\* the command's call seen as the multi-line toggle it dispatches to
AsMulti(c) ==
    [c EXCEPT !.op = "applyMultiLineToggle",
              !.args = [selFrom |-> c.cursorBefore.from, selTo |-> c.cursorBefore.to]]

----------------------------------------------------------------------------
(* Further properties of applySingleLineToggle *)

\* the range of the call holds no underscore and has none right beside it
CleanRange(c) ==
    /\ c.args.selFrom < c.args.selTo
    /\ \A i \in (c.args.selFrom - 1)..(c.args.selTo) : ~IsMark(LineBefore(c), i)

\* call d is applySingleLineToggle on the marks range call c produced
OnMarksOf(c, d) ==
    /\ IsSingle(d)
    /\ d.args.lineNum = c.args.lineNum
    /\ d.args.selFrom = c.args.selFrom
    /\ d.args.selTo = c.args.selTo + 2

\* C30: when a non-empty range [from, to) holds no underscore and has none
\* right before or after it, then once applySingleLineToggle has wrapped it
\* the ranges [from+1, to+1) and [from, to+2) are both classified as
\* underlined with marks [from, to+2), and applySingleLineToggle on either
\* of them restores the original line.
C30_ConditionalRoundTrip ==
    \A k \in 1..Len(calls) :
        (IsSingle(calls[k]) /\ CleanRange(calls[k])) =>
            LET c == calls[k]
                from == c.args.selFrom
                to == c.args.selTo
                inner == getUnderlineState(LineAfter(c), from + 1, to + 1)
                whole == getUnderlineState(LineAfter(c), from, to + 2)
            IN  /\ Len(LineAfter(c)) = Len(LineBefore(c)) + 2
                /\ inner.isUnderlined /\ inner.markFrom = from /\ inner.markTo = to + 2
                /\ whole.isUnderlined /\ whole.markFrom = from /\ whole.markTo = to + 2
                /\ \A m \in (k + 1)..Len(calls) :
                      (m = k + 1 /\ (OnContentOf(c, calls[m]) \/ OnMarksOf(c, calls[m])))
                          => calls[m].after = c.before

\* a range with no underscore in or beside it, on a line that holds an
\* underscore further away, was wrapped and its marks range toggled again
C30_Witness ==
    /\ Len(calls) = 2
    /\ IsSingle(calls[1]) /\ CleanRange(calls[1])
    /\ OnMarksOf(calls[1], calls[2])
    /\ \E i \in 0..(Len(LineBefore(calls[1])) - 1) : IsMark(LineBefore(calls[1]), i)
    /\ calls[2].after = calls[1].before

====
